---- MODULE Spec2Model ----
(***************************************************************************)
(* Network simplex ranking of dagre, lib/rank/network-simplex.js.          *)
(*                                                                         *)
(* The graph g and the tight tree t are kept as the sequences the graph    *)
(* library iterates over: nodes in g.nodeIds() order, edges in g.edges()   *)
(* order.  One behaviour is one call networkSimplex(g) on one input graph. *)
(***************************************************************************)
EXTENDS Integers, Sequences, FiniteSets, TLC

\* Bounds of the input graphs: up to MaxNodes nodes and MaxEdges edges with
\* minlen in 0..MaxMinlen and weight in 0..MaxWeight; up to SmallNodes nodes
\* with minlen in 0..SmallMinlen and weight in 0..SmallWeight; up to MaxNodes
\* nodes and any number of edges with either every minlen 0 and weight in
\* 0..MaxWeight, or minlen in 0..MaxMinlen and every weight 1.
MaxNodes == 4
MaxEdges == 4
MaxMinlen == 1
MaxWeight == 1
SmallNodes == 3
SmallMinlen == 2
SmallWeight == 2
\* The "much larger" weight of the detour scenario.
HeavyWeight == 10

\* The id createFakeRoot gives the synthetic node (distinct from 1..n).
Root == 0
\* No node: an absent parent attribute, an absent fake root.
NoNode == -1

VARIABLES
  pc,        \* "start" | "loop" | "done" | "aborted": position in networkSimplex
  nodes,     \* g.nodeIds(), in order
  edges,     \* g.edges(), in order: records [v, w, minlen, weight]
  rank,      \* the rank attribute of every node of g
  root,      \* the local variable root of networkSimplex
  tNodes,    \* t.nodeIds(), in order
  tEdges,    \* t.edges(), in order: records [v, w, cutvalue]
  tLabel,    \* the label of every tree node: [low, lim, parent]
  inNodes,   \* the node sequence the caller passed in
  inEdges,   \* the edge sequence the caller passed in
  seen       \* the (t.edges(), ranks) found at the head of the loop in the
             \* earlier turns of the current call

vars == <<pc, nodes, edges, rank, root, tNodes, tEdges, tLabel,
          inNodes, inEdges, seen>>

----------------------------------------------------------------------------
\* Generic helpers.

Range(s) == {s[i] : i \in 1..Len(s)}

RECURSIVE SetMin(_)
SetMin(S) ==
  LET x == CHOOSE y \in S : TRUE
  IN IF S = {x} THEN x
     ELSE LET m == SetMin(S \ {x}) IN IF x < m THEN x ELSE m

\* Index of the first element of s satisfying Test, 0 if none (_.find).
RECURSIVE FirstIndex(_, _, _)
FirstIndex(s, Test(_), i) ==
  IF i > Len(s) THEN 0
  ELSE IF Test(s[i]) THEN i
  ELSE FirstIndex(s, Test, i + 1)

\* Index of the first element of s with the least key (_.min), 0 if s is empty.
RECURSIVE MinIndex(_, _, _, _)
MinIndex(s, Key(_), i, best) ==
  IF i > Len(s) THEN best
  ELSE IF best = 0 \/ Key(s[i]) < Key(s[best]) THEN MinIndex(s, Key, i + 1, i)
  ELSE MinIndex(s, Key, i + 1, best)

RemoveAt(s, i) == [j \in 1..(Len(s) - 1) |-> IF j < i THEN s[j] ELSE s[j + 1]]

----------------------------------------------------------------------------
\* The graph library, on g (directed) and t (undirected).

\* g.getEdge(v, w): index into es, 0 if absent.
getEdge(es, v, w) == LET T(e) == e.v = v /\ e.w = w IN FirstIndex(es, T, 1)

hasEdge(es, v, w) == getEdge(es, v, w) # 0

\* t.getEdge(v, w) on the undirected tree: either orientation.
getTreeEdge(tes, v, w) ==
  LET T(e) == (e.v = v /\ e.w = w) \/ (e.v = w /\ e.w = v)
  IN FirstIndex(tes, T, 1)

\* g.nodeEdges(v): the in-edges, then the out-edges.
nodeEdges(es, v) ==
  LET In(e) == e.w = v
      Out(e) == e.v = v
  IN SelectSeq(es, In) \o SelectSeq(es, Out)

\* t.neighbors(v), in the order of the incident edges.
neighbors(tes, v) ==
  LET Inc(e) == e.v = v \/ e.w = v
      inc == SelectSeq(tes, Inc)
  IN [i \in 1..Len(inc) |-> IF inc[i].v = v THEN inc[i].w ELSE inc[i].v]

\* g.removeNode(v): the node and every edge incident to it.
removeNode(ns, es, v) ==
  LET KeepN(x) == x # v
      KeepE(e) == e.v # v /\ e.w # v
  IN [nodes |-> SelectSeq(ns, KeepN), edges |-> SelectSeq(es, KeepE)]

\* The nodes connected to those of S, ignoring edge direction.
RECURSIVE Reach(_, _)
Reach(es, S) ==
  LET S2 == S \cup {e.w : e \in {x \in Range(es) : x.v \in S}}
               \cup {e.v : e \in {x \in Range(es) : x.w \in S}}
  IN IF S2 = S THEN S ELSE Reach(es, S2)

\* alg.components(g): one node list per connected component; the first
\* node of each is the first of g.nodeIds() that lies in it.
components(ns, es) ==
  LET First(v) == LET r == Reach(es, {v})
                  IN \A i \in 1..Len(ns) : ns[i] \in r => \E j \in 1..i : ns[j] = v
      firsts == SelectSeq(ns, First)
  IN [i \in 1..Len(firsts) |->
        LET In(x) == x \in Reach(es, {firsts[i]}) IN SelectSeq(ns, In)]

\* alg.preorder / alg.postorder: a depth-first walk over t.neighbors from
\* every node of vs in turn, skipping visited nodes.  st = [ord, vis].
RECURSIVE dfsOrder(_, _, _, _)
RECURSIVE dfsOrderEach(_, _, _, _)
dfsOrder(tes, st, v, post) ==
  LET s1 == [ord |-> IF post THEN st.ord ELSE Append(st.ord, v),
             vis |-> st.vis \cup {v}]
      s2 == dfsOrderEach(tes, s1, neighbors(tes, v), post)
  IN IF post THEN [s2 EXCEPT !.ord = Append(s2.ord, v)] ELSE s2
dfsOrderEach(tes, st, ws, post) ==
  IF ws = <<>> THEN st
  ELSE IF Head(ws) \in st.vis THEN dfsOrderEach(tes, st, Tail(ws), post)
  ELSE dfsOrderEach(tes, dfsOrder(tes, st, Head(ws), post), Tail(ws), post)

RECURSIVE dfsOrderFrom(_, _, _, _)
dfsOrderFrom(tes, st, vs, post) ==
  IF vs = <<>> THEN st.ord
  ELSE IF Head(vs) \in st.vis THEN dfsOrderFrom(tes, st, Tail(vs), post)
  ELSE dfsOrderFrom(tes, dfsOrder(tes, st, Head(vs), post), Tail(vs), post)

preorder(tes, v) == dfsOrderFrom(tes, [ord |-> <<>>, vis |-> {}], <<v>>, FALSE)
postorder(tes, vs) == dfsOrderFrom(tes, [ord |-> <<>>, vis |-> {}], vs, TRUE)

----------------------------------------------------------------------------
\* The collaborators of network-simplex.js: ./util, ./longest-path,
\* ./feasible-tree and ./normalize.

\* rankUtil.slack(g, e) = rank(head) - rank(tail) - minlen.
slack(rk, e) == rk[e.w] - rk[e.v] - e.minlen

\* Longest path ranking: a sink gets rank 0, every other node the lowest
\* rank its out-edges allow.
RECURSIVE longestPath(_, _)
longestPath(es, v) ==
  LET out == {e \in Range(es) : e.v = v}
  IN IF out = {} THEN 0
     ELSE SetMin({longestPath(es, e.w) - e.minlen : e \in out})

\* initRank(g) assigns a rank to every node, whatever rank it had before.
initRank(ns, es, rk) == [v \in Range(ns) |-> longestPath(es, v)]

\* tightTree(t, g): grow t depth-first along edges of zero slack.
RECURSIVE tightDfs(_, _, _, _)
RECURSIVE tightDfsEach(_, _, _, _, _)
tightDfs(es, rk, t, v) == tightDfsEach(es, rk, t, v, nodeEdges(es, v))
tightDfsEach(es, rk, t, v, nes) ==
  IF nes = <<>> THEN t
  ELSE LET e == Head(nes)
           w == IF e.v = v THEN e.w ELSE e.v
       IN IF w \notin Range(t.nodes) /\ slack(rk, e) = 0
          THEN tightDfsEach(es, rk,
                 tightDfs(es, rk,
                   [nodes |-> Append(t.nodes, w),
                    edges |-> Append(t.edges, [v |-> v, w |-> w, cutvalue |-> 0])],
                   w),
                 v, Tail(nes))
          ELSE tightDfsEach(es, rk, t, v, Tail(nes))

RECURSIVE tightTree(_, _, _, _)
tightTree(es, rk, t, vs) ==
  IF vs = <<>> THEN t
  ELSE tightTree(es, rk, tightDfs(es, rk, t, Head(vs)), Tail(vs))

\* findMinSlackEdge(t, g): the first edge of least slack among those with
\* exactly one endpoint in t.
findMinSlackEdge(es, rk, t) ==
  LET Cross(e) == (e.v \in Range(t.nodes)) # (e.w \in Range(t.nodes))
      cross == SelectSeq(es, Cross)
      Key(e) == slack(rk, e)
  IN cross[MinIndex(cross, Key, 1, 0)]

\* feasibleTree(g): a tight spanning tree of g, built from g.nodeIds()[0];
\* the ranks of the tree grown so far are shifted to make the next edge tight.
RECURSIVE feasibleTreeLoop(_, _, _, _)
feasibleTreeLoop(ns, es, rk, t) ==
  LET t2 == tightTree(es, rk, t, t.nodes)
  IN IF Len(t2.nodes) >= Len(ns) THEN [nodes |-> t2.nodes, edges |-> t2.edges, rank |-> rk]
     ELSE LET e == findMinSlackEdge(es, rk, t2)
              delta == IF e.v \in Range(t2.nodes) THEN slack(rk, e) ELSE -slack(rk, e)
              rk2 == [v \in DOMAIN rk |->
                        IF v \in Range(t2.nodes) THEN rk[v] + delta ELSE rk[v]]
          IN feasibleTreeLoop(ns, es, rk2, t2)

feasibleTree(ns, es, rk) ==
  feasibleTreeLoop(ns, es, rk, [nodes |-> <<ns[1]>>, edges |-> <<>>])

\* normalize(g): shift the ranks so that the least is 0.
normalize(ns, rk) ==
  LET min == SetMin({rk[v] : v \in Range(ns)})
  IN [v \in DOMAIN rk |-> rk[v] - min]

----------------------------------------------------------------------------
\* network-simplex.js.

\* createFakeRoot(g): with more than one component, a new node joined to the
\* first node of every component by an edge of minlen 0 and weight 0.
createFakeRoot(ns, es) ==
  LET cmpts == components(ns, es)
  IN IF Len(cmpts) > 1
     THEN [root |-> Root,
           nodes |-> Append(ns, Root),
           edges |-> es \o [i \in 1..Len(cmpts) |->
                      [v |-> Root, w |-> cmpts[i][1], minlen |-> 0, weight |-> 0]]]
     ELSE [root |-> NoNode, nodes |-> ns, edges |-> es]

\* A fault of lines 166 and 176: low taken after the children are numbered.
nodeLabelLate(low, lim, parent) == [low |-> lim, lim |-> lim, parent |-> parent]

\* Lines 176-183: the label dfsAssignLowLim leaves on a node.
nodeLabel(low, lim, parent) == [low |-> low, lim |-> lim, parent |-> parent]

\* dfsAssignLowLim(tree, visited, nextLim, v, parent), st = [lab, vis, nextLim]:
\* returns st after numbering the subtree of v; st.nextLim is the return value.
RECURSIVE dfsAssignLowLim(_, _, _, _)
RECURSIVE dfsAssignLowLimEach(_, _, _, _)
dfsAssignLowLim(tes, st, v, parent) ==
  LET low == st.nextLim
      s1 == dfsAssignLowLimEach(tes, [st EXCEPT !.vis = st.vis \cup {v}], v,
                                neighbors(tes, v))
  IN [lab |-> [x \in DOMAIN s1.lab \cup {v} |->
                 IF x = v THEN nodeLabel(low, s1.nextLim, parent)
                 ELSE s1.lab[x]],
      vis |-> s1.vis,
      nextLim |-> s1.nextLim + 1]
dfsAssignLowLimEach(tes, st, v, ws) ==
  IF ws = <<>> THEN st
  ELSE IF Head(ws) \in st.vis THEN dfsAssignLowLimEach(tes, st, v, Tail(ws))
  ELSE dfsAssignLowLimEach(tes, dfsAssignLowLim(tes, st, Head(ws), v), v, Tail(ws))

\* initLowLimValues(tree): number the tree from tree.nodeIds()[0].
initLowLimValues(tns, tes, lab) ==
  dfsAssignLowLim(tes, [lab |-> lab, vis |-> {}, nextLim |-> 1], tns[1], NoNode).lab

\* isDescendant(tree, vLabel, rootLabel).
isDescendant(vLabel, rootLabel) ==
  rootLabel.low <= vLabel.lim /\ vLabel.lim <= rootLabel.lim

\* isTreeEdge(tree, u, v).
isTreeEdge(tes, u, v) == getTreeEdge(tes, u, v) # 0

\* A fault of line 135: the test inverted.
pointsToHeadInverted(isOutEdge, childIsTail) == isOutEdge # childIsTail

\* Line 135: the edge at child points to the head side of the tree edge.
pointsToHeadOf(isOutEdge, childIsTail) == isOutEdge = childIsTail

\* A fault of line 141: the cut value of the other tree edge is added when
\* the edge points to the head side and subtracted otherwise.
foldCutValueAdded(pointsToHead, otherCutValue) ==
  IF pointsToHead THEN otherCutValue ELSE -otherCutValue

\* Line 141: the cut value of the other tree edge is subtracted when the edge
\* points to the head side and added otherwise.
foldCutValue(pointsToHead, otherCutValue) ==
  IF pointsToHead THEN -otherCutValue ELSE otherCutValue

\* calcCutValue(t, g, child): the cut value of the tree edge child - parent.
RECURSIVE calcCutValueEach(_, _, _, _, _, _)
calcCutValueEach(tes, child, parent, childIsTail, nes, cutValue) ==
  IF nes = <<>> THEN cutValue
  ELSE LET edge == Head(nes)
           isOutEdge == edge.v = child
           other == IF isOutEdge THEN edge.w ELSE edge.v
           pointsToHead == pointsToHeadOf(isOutEdge, childIsTail)
           c1 == cutValue + (IF pointsToHead THEN edge.weight ELSE -edge.weight)
           c2 == IF isTreeEdge(tes, child, other)
                 THEN LET otherCutValue == tes[getTreeEdge(tes, child, other)].cutvalue
                      IN c1 + foldCutValue(pointsToHead, otherCutValue)
                 ELSE c1
       IN IF other # parent
          THEN calcCutValueEach(tes, child, parent, childIsTail, Tail(nes), c2)
          ELSE calcCutValueEach(tes, child, parent, childIsTail, Tail(nes), cutValue)

calcCutValue(tes, es, lab, child) ==
  LET parent == lab[child].parent
      childIsTail == hasEdge(es, child, parent)
      graphEdge == IF childIsTail THEN es[getEdge(es, child, parent)]
                   ELSE es[getEdge(es, parent, child)]
  IN calcCutValueEach(tes, child, parent, childIsTail, nodeEdges(es, child),
                      graphEdge.weight)

\* assignCutValue(t, g, child).
assignCutValue(tes, es, lab, child) ==
  [tes EXCEPT ![getTreeEdge(tes, child, lab[child].parent)].cutvalue =
                 calcCutValue(tes, es, lab, child)]

\* Lines 98-100: assignCutValue on every node of vs in turn.
RECURSIVE initCutValuesEach(_, _, _, _)
initCutValuesEach(tes, es, lab, vs) ==
  IF vs = <<>> THEN tes
  ELSE initCutValuesEach(assignCutValue(tes, es, lab, Head(vs)), es, lab, Tail(vs))

\* A fault of line 96: the nodes are taken parents first.
initCutValuesParentsFirst(tns, tes, es, lab) ==
  initCutValuesEach(tes, es, lab, Tail(preorder(tes, tns[1])))

\* initCutValues(t, g): every node but the last of the postorder, in postorder.
initCutValues(tns, tes, es, lab) ==
  LET vs == postorder(tes, tns)
  IN initCutValuesEach(tes, es, lab, SubSeq(vs, 1, Len(vs) - 1))

\* Faults of line 191: a cut value of -1 is let pass; a cut value of 0 is taken.
leaveEdgeBelow(tes) == LET Neg(e) == e.cutvalue < -1 IN FirstIndex(tes, Neg, 1)
leaveEdgeNonStrict(tes) == LET Neg(e) == e.cutvalue <= 0 IN FirstIndex(tes, Neg, 1)

\* A fault of line 190: the last tree edge of negative cut value is returned.
leaveEdgeLast(tes) ==
  LET neg == {i \in 1..Len(tes) : tes[i].cutvalue < 0}
  IN IF neg = {} THEN 0 ELSE CHOOSE i \in neg : \A j \in neg : j <= i

\* A fault of line 191: the comparison reversed.
leaveEdgePositive(tes) == LET Pos(e) == e.cutvalue > 0 IN FirstIndex(tes, Pos, 1)

\* leaveEdge(tree): index of the first tree edge of negative cut value, 0 if none.
leaveEdge(tes) == LET Neg(e) == e.cutvalue < 0 IN FirstIndex(tes, Neg, 1)

\* A fault of line 214: the comparison of the two lim values inverted.
candidatesFlipInverted(lab, es, edge) ==
  LET flipEdge == ~hasEdge(es, edge.v, edge.w)
      v == IF flipEdge THEN edge.w ELSE edge.v
      w == IF flipEdge THEN edge.v ELSE edge.w
      flip == lab[v].lim < lab[w].lim
      tailLabel == IF flip THEN lab[w] ELSE lab[v]
      Cand(e) == /\ flip = isDescendant(lab[e.v], tailLabel)
                 /\ flip # isDescendant(lab[e.w], tailLabel)
  IN SelectSeq(es, Cand)

\* A fault of lines 220-221: an edge with exactly one end in the subtree of
\* tailLabel is a candidate, whichever way it points.
candidatesEitherWay(lab, es, edge) ==
  LET flipEdge == ~hasEdge(es, edge.v, edge.w)
      v == IF flipEdge THEN edge.w ELSE edge.v
      w == IF flipEdge THEN edge.v ELSE edge.w
      flip == lab[v].lim > lab[w].lim
      tailLabel == IF flip THEN lab[w] ELSE lab[v]
      Cand(e) == isDescendant(lab[e.v], tailLabel) # isDescendant(lab[e.w], tailLabel)
  IN SelectSeq(es, Cand)

\* The candidates of enterEdge(t, g, edge), in g.edges() order.
candidates(lab, es, edge) ==
  LET flipEdge == ~hasEdge(es, edge.v, edge.w)
      v == IF flipEdge THEN edge.w ELSE edge.v
      w == IF flipEdge THEN edge.v ELSE edge.w
      flip == lab[v].lim > lab[w].lim
      tailLabel == IF flip THEN lab[w] ELSE lab[v]
      Cand(e) == /\ flip = isDescendant(lab[e.v], tailLabel)
                 /\ flip # isDescendant(lab[e.w], tailLabel)
  IN SelectSeq(es, Cand)

\* A fault of line 224: of the candidates of least slack the last is taken.
enterEdgeLast(lab, es, rk, edge) ==
  LET cs == candidates(lab, es, edge)
      least == {k \in 1..Len(cs) : \A j \in 1..Len(cs) : slack(rk, cs[k]) <= slack(rk, cs[j])}
  IN IF cs = <<>> THEN [v |-> NoNode, w |-> NoNode, minlen |-> 0, weight |-> 0]
     ELSE cs[CHOOSE k \in least : \A j \in least : j <= k]

\* A fault of line 224: the first candidate is taken, whatever its slack.
enterEdgeFirst(lab, es, rk, edge) ==
  LET cs == candidates(lab, es, edge)
  IN IF cs = <<>> THEN [v |-> NoNode, w |-> NoNode, minlen |-> 0, weight |-> 0]
     ELSE cs[1]

\* enterEdge(t, g, edge): the first candidate of least slack; with no
\* candidate _.min returns no edge (NoEdge).
NoEdge == [v |-> NoNode, w |-> NoNode, minlen |-> 0, weight |-> 0]
enterEdge(lab, es, rk, edge) ==
  LET cs == candidates(lab, es, edge)
      Key(e) == slack(rk, e)
  IN IF cs = <<>> THEN NoEdge ELSE cs[MinIndex(cs, Key, 1, 0)]

\* A fault of line 257: the two signs exchanged.
childRankSwapped(parentRank, edge, flipped) ==
  parentRank + (IF flipped THEN -edge.minlen ELSE edge.minlen)

\* Line 257: the rank of a node whose tree parent has rank parentRank; edge is
\* the g edge joining them, flipped when it leaves the parent.
childRank(parentRank, edge, flipped) ==
  parentRank + (IF flipped THEN edge.minlen ELSE -edge.minlen)

\* updateRanks(t, g): from the tree node without parent, in preorder, every
\* other node is put minlen away from its parent.
RECURSIVE updateRanksEach(_, _, _, _)
updateRanksEach(es, lab, rk, vs) ==
  IF vs = <<>> THEN rk
  ELSE LET v == Head(vs)
           parent == lab[v].parent
           flipped == ~hasEdge(es, v, parent)
           edge == IF flipped THEN es[getEdge(es, parent, v)]
                   ELSE es[getEdge(es, v, parent)]
           r == childRank(rk[parent], edge, flipped)
       IN updateRanksEach(es, lab, [rk EXCEPT ![v] = r], Tail(vs))

updateRanks(tns, tes, es, lab, rk) ==
  LET NoParent(x) == lab[x].parent = NoNode
      rootV == tns[FirstIndex(tns, NoParent, 1)]
  IN updateRanksEach(es, lab, rk, Tail(preorder(tes, rootV)))

\* A fault of line 235: the ranks are left as they were.
exchangeEdgesKeepRanks(tns, tes, es, lab, rk, e, f) ==
  LET t1 == Append(RemoveAt(tes, e), [v |-> f.v, w |-> f.w, cutvalue |-> 0])
      lab1 == initLowLimValues(tns, t1, lab)
  IN [tEdges |-> initCutValues(tns, t1, es, lab1), tLabel |-> lab1, rank |-> rk]

\* exchangeEdges(t, g, e, f): e (an index of t.edges()) leaves the tree, f
\* enters it; numbering, cut values and ranks are recomputed.
exchangeEdges(tns, tes, es, lab, rk, e, f) ==
  LET t1 == Append(RemoveAt(tes, e), [v |-> f.v, w |-> f.w, cutvalue |-> 0])
      lab1 == initLowLimValues(tns, t1, lab)
      t2 == initCutValues(tns, t1, es, lab1)
  IN [tEdges |-> t2, tLabel |-> lab1, rank |-> updateRanks(tns, t2, es, lab1, rk)]

----------------------------------------------------------------------------
\* The input graphs: every DAG on the nodes 1..n, n <= MaxNodes, with at most
\* MaxEdges edges, edges listed in the order of (tail, head), every minlen in
\* 0..MaxMinlen and every weight in the given set.

Pairs(n) == {p \in (1..n) \X (1..n) : p[1] # p[2]}

RECURSIVE Acyclic(_, _)
Acyclic(V, S) ==
  IF V = {} THEN TRUE
  ELSE LET src == {v \in V : \A p \in S : p[2] = v => p[1] \notin V}
       IN src # {} /\ Acyclic(V \ {CHOOSE v \in src : TRUE}, S)

RECURSIVE EdgeSeq(_, _, _, _, _)
EdgeSeq(n, S, ml, wt, k) ==
  IF k > n * n THEN <<>>
  ELSE LET p == <<((k - 1) \div n) + 1, ((k - 1) % n) + 1>>
       IN (IF p \in S
           THEN <<[v |-> p[1], w |-> p[2], minlen |-> ml[p], weight |-> wt[p]]>>
           ELSE <<>>) \o EdgeSeq(n, S, ml, wt, k + 1)

Dags(n, maxE) ==
  {S \in SUBSET Pairs(n) : Cardinality(S) <= maxE /\ Acyclic(1..n, S)}

\* The detour scenario: A -> B -> C -> D of weight 1 and A -> D of a much
\* larger weight, every minlen 1 (A, B, C, D = 1, 2, 3, 4).
Scenario ==
  [nodes |-> <<1, 2, 3, 4>>,
   edges |-> <<[v |-> 1, w |-> 2, minlen |-> 1, weight |-> 1],
               [v |-> 2, w |-> 3, minlen |-> 1, weight |-> 1],
               [v |-> 3, w |-> 4, minlen |-> 1, weight |-> 1],
               [v |-> 1, w |-> 4, minlen |-> 1, weight |-> HeavyWeight]>>]

----------------------------------------------------------------------------
\* The state machine.

InitWith(gr) ==
  /\ pc = "start"
  /\ nodes = gr.nodes
  /\ edges = gr.edges
  /\ rank = << >>
  /\ root = NoNode
  /\ tNodes = << >>
  /\ tEdges = << >>
  /\ tLabel = << >>
  /\ inNodes = gr.nodes
  /\ inEdges = gr.edges
  /\ seen = {}

InitFrom(maxN, maxE, Minlens, Weights) ==
  \E n \in 1..maxN : \E S \in Dags(n, maxE) :
  \E ml \in [S -> Minlens] : \E wt \in [S -> Weights] :
    InitWith([nodes |-> [i \in 1..n |-> i], edges |-> EdgeSeq(n, S, ml, wt, 1)])

\* Inputs within the spec's data model: weights are non-negative.
Init ==
  \/ InitFrom(MaxNodes, MaxEdges, 0..MaxMinlen, 0..MaxWeight)
  \/ InitFrom(SmallNodes, MaxEdges, 0..SmallMinlen, 0..SmallWeight)
  \/ InitFrom(MaxNodes, MaxNodes * MaxNodes, {0}, 0..MaxWeight)
  \/ InitFrom(MaxNodes, MaxNodes * MaxNodes, 0..MaxMinlen, {1})
  \/ InitWith(Scenario)

\* Inputs within the preconditions the source states (a DAG, every edge has
\* a minlen and a weight): a weight may be negative.
InitAnyWeight == InitFrom(SmallNodes, MaxEdges, 0..MaxMinlen, -1..MaxWeight)

\* Line 55: initRank(g) is called on every node, ranked before or not.
initialRanks(ns, es, rk) == initRank(ns, es, rk)

\* networkSimplex, lines 54-58: up to the head of the loop.
Setup ==
  /\ pc = "start"
  /\ \E fr \in {createFakeRoot(nodes, edges)} :
     \E t \in {feasibleTree(fr.nodes, fr.edges, initialRanks(fr.nodes, fr.edges, rank))} :
     \E lab \in {initLowLimValues(t.nodes, t.edges, << >>)} :
        /\ root' = fr.root
        /\ nodes' = fr.nodes
        /\ edges' = fr.edges
        /\ rank' = t.rank
        /\ tNodes' = t.nodes
        /\ tLabel' = lab
        /\ tEdges' = initCutValues(t.nodes, t.edges, fr.edges, lab)
  /\ pc' = "loop"
  /\ seen' = {}
  /\ UNCHANGED <<inNodes, inEdges>>

\* One turn of the loop, lines 61-63.  With no candidate enterEdge returns
\* no edge; exchangeEdges still removes e from the tree (line 231) before
\* the non-edge makes the graph library fail.
Pivot ==
  /\ pc = "loop"
  /\ leaveEdge(tEdges) # 0
  /\ \E e \in {leaveEdge(tEdges)} :
     \E f \in {enterEdge(tLabel, edges, rank, tEdges[e])} :
        IF f = NoEdge
        THEN /\ tEdges' = RemoveAt(tEdges, e)
             /\ pc' = "aborted"
             /\ UNCHANGED <<tLabel, rank>>
        ELSE \E x \in {exchangeEdges(tNodes, tEdges, edges, tLabel, rank, e, f)} :
                /\ tEdges' = x.tEdges
                /\ tLabel' = x.tLabel
                /\ rank' = x.rank
                /\ pc' = "loop"
  /\ seen' = seen \cup {<<tEdges, rank>>}
  /\ UNCHANGED <<nodes, edges, root, tNodes, inNodes, inEdges>>

\* A fault of line 66: the fake root is never removed.
finalGraphKeep(ns, es, rk, r) == [nodes |-> ns, edges |-> es, rank |-> rk]

\* Line 66: the fake root, if any, leaves g with its edges and its label.
finalGraph(ns, es, rk, r) ==
  LET g1 == IF r # NoNode THEN removeNode(ns, es, r) ELSE [nodes |-> ns, edges |-> es]
  IN [nodes |-> g1.nodes, edges |-> g1.edges,
      rank |-> [v \in Range(g1.nodes) |-> rk[v]]]

\* A fault of line 67: no normalization.
finalRankAsIs(ns, rk) == rk

\* Line 67: the ranks are normalized.
finalRank(ns, rk) == normalize(ns, rk)

\* The end of networkSimplex, lines 66-67: leaveEdge found no edge.
Finalize ==
  /\ pc = "loop"
  /\ leaveEdge(tEdges) = 0
  /\ \E g1 \in {finalGraph(nodes, edges, rank, root)} :
        /\ nodes' = g1.nodes
        /\ edges' = g1.edges
        /\ rank' = finalRank(g1.nodes, g1.rank)
  /\ pc' = "done"
  /\ UNCHANGED <<root, tNodes, tEdges, tLabel, inNodes, inEdges, seen>>

Next == Setup \/ Pivot \/ Finalize

\* One call of networkSimplex on every input.
Spec == Init /\ [][Next]_vars

\* One call on inputs whose weights may be negative.
SpecAnyWeight == InitAnyWeight /\ [][Next]_vars

----------------------------------------------------------------------------
\* The claims.

\* exchangeEdges has run in the current call.
pivoted == seen # {}

RECURSIVE SeqSum(_)
SeqSum(s) == IF s = << >> THEN 0 ELSE Head(s) + SeqSum(Tail(s))

\* Every edge of es is at least minlen long under the ranks rk.
Feasible(es, rk) ==
  \A i \in 1..Len(es) : rk[es[i].w] - rk[es[i].v] >= es[i].minlen

\* The sum over the edges of weight * (rank(w) - rank(v)).
Cost(es, rk) ==
  SeqSum([i \in 1..Len(es) |-> es[i].weight * (rk[es[i].w] - rk[es[i].v])])

\* The largest rank a reference ranking needs: the sum of all minlens.
MaxRank(es) == SeqSum([i \in 1..Len(es) |-> es[i].minlen])

\* C1: after networkSimplex returns, every edge v -> w of g has
\* rank(w) - rank(v) >= minlen.
C1_Feasibility == pc = "done" => Feasible(edges, rank)

\* C1 witness: a call that pivoted has returned and left an edge longer than
\* its minlen.
C1_Witness ==
  /\ pc = "done"
  /\ pivoted
  /\ \E i \in 1..Len(edges) : slack(rank, edges[i]) > 0

\* C2: the ranks networkSimplex leaves cost no more than any ranking with
\* ranks in 0..MaxRank that respects every minlen (the brute-force reference).
C2_Optimal ==
  pc = "done" =>
    \A r \in [Range(nodes) -> 0..MaxRank(edges)] :
      Feasible(edges, r) => Cost(edges, rank) <= Cost(edges, r)

\* C2 witness: a call that pivoted has returned with a positive cost.
C2_Witness == pc = "done" /\ pivoted /\ Cost(edges, rank) > 0

\* C3: after networkSimplex returns, the least rank over the nodes of g is 0.
C3_MinRankZero == pc = "done" => SetMin({rank[v] : v \in Range(nodes)}) = 0

\* C3 witness: a call that added a fake root has returned; the node the fake
\* root was tied to at equal rank is not the only one at rank 0.
C3_Witness ==
  /\ pc = "done"
  /\ root = Root
  /\ \E v \in Range(nodes) : rank[v] > 0

\* C5: after networkSimplex returns, g has the nodes and the edges (with
\* minlen and weight) of the input, no fake root, and a rank on every node;
\* for a connected input no fake root is ever added.
C5_Frame ==
  /\ pc = "done" =>
       /\ nodes = inNodes
       /\ edges = inEdges
       /\ DOMAIN rank = Range(inNodes)
  /\ Len(components(inNodes, inEdges)) <= 1 =>
       /\ root = NoNode
       /\ Root \notin Range(nodes)

\* C5 witness: a call on a disconnected input has added the fake root,
\* pivoted and returned.
C5_Witness == pc = "done" /\ root = Root /\ pivoted

\* C4: the pivot loop terminates.  A turn of the loop is a function of
\* (t.edges(), ranks), of which a graph has finitely many, so the loop fails
\* to end only by coming back to a pair it was at before or by aborting:
\* it never does either.
C4_Terminates ==
  /\ pc # "aborted"
  /\ pc = "loop" => <<tEdges, rank>> \notin seen

\* C4 witness: after one exchange the loop is due a further pivot whose
\* entering edge has zero slack.
C4_Witness ==
  /\ pc = "loop"
  /\ pivoted
  /\ leaveEdge(tEdges) # 0
  /\ enterEdge(tLabel, edges, rank, tEdges[leaveEdge(tEdges)]) # NoEdge
  /\ slack(rank, enterEdge(tLabel, edges, rank, tEdges[leaveEdge(tEdges)])) = 0

\* The nodes of t that are r or below r when t hangs from t.nodeIds()[0]:
\* those cut off from that node when r is taken out of t.
SubtreeOf(r) ==
  IF r = tNodes[1] THEN Range(tNodes)
  ELSE LET Keep(e) == e.v # r /\ e.w # r
       IN Range(tNodes) \ Reach(SelectSeq(tEdges, Keep), {tNodes[1]})

\* C7: after initLowLimValues, x is r or a descendant of r exactly when
\* low(r) <= lim(x) <= lim(r).
C7_Numbering ==
  pc = "loop" =>
    \A x \in Range(tNodes) : \A r \in Range(tNodes) :
      (x \in SubtreeOf(r)) <=> isDescendant(tLabel[x], tLabel[r])

\* C7 witness: the tree after an exchange has a node two levels below the
\* tree root and a node beside it.
C7_Witness ==
  /\ pc = "loop"
  /\ pivoted
  /\ \E x \in Range(tNodes) : \E r \in Range(tNodes) : \E y \in Range(tNodes) :
       /\ r # tNodes[1]
       /\ x # r
       /\ x \in SubtreeOf(r)
       /\ y # tNodes[1]
       /\ y \notin SubtreeOf(r)
       /\ r \notin SubtreeOf(y)

\* The fake root or one of its edges is in g.
SyntheticInGraph ==
  \/ Root \in Range(nodes)
  \/ \E i \in 1..Len(edges) : edges[i].v = Root \/ edges[i].w = Root

\* C8: when the loop is aborted, the fake root and its edges have left g
\* by the time control leaves networkSimplex.
C8_CleanupOnAbort == pc = "aborted" => ~SyntheticInGraph

\* enterEdge finds no candidate for the edge leaveEdge returns.
NoCandidate ==
  /\ pc = "loop"
  /\ leaveEdge(tEdges) # 0
  /\ candidates(tLabel, edges, tEdges[leaveEdge(tEdges)]) = << >>

\* C9: when enterEdge finds no candidate the computation aborts there:
\* the tree, its labels and the ranks are as enterEdge found them.
C9_AbortAtEnterEdge ==
  [][NoCandidate =>
       /\ pc' = "aborted"
       /\ tEdges' = tEdges
       /\ tLabel' = tLabel
       /\ rank' = rank]_vars

\* The input is the detour scenario.
IsScenario == inNodes = Scenario.nodes /\ inEdges = Scenario.edges

\* The span of A -> D under the ranks rk.
DetourSpan(rk) == rk[4] - rk[1]

\* The normalized longest-path ranking of g.
LongestPathRanks == normalize(nodes, initRank(nodes, edges, << >>))

\* C10 as stated: networkSimplex gives A -> D a span different from its
\* span under the longest-path ranking.
C10_Stated ==
  (IsScenario /\ pc = "done") => DetourSpan(rank) # DetourSpan(LongestPathRanks)

\* C10 as amended: networkSimplex returns on the scenario and gives A -> D
\* the span 3, which is its span under the longest-path ranking: the three
\* hops A -> B -> C -> D force it, whatever the weights.
C10_Amended ==
  IsScenario =>
    /\ pc # "aborted"
    /\ pc = "done" =>
         /\ DetourSpan(rank) = 3
         /\ DetourSpan(rank) = DetourSpan(LongestPathRanks)

\* C10 witness: networkSimplex has returned on the scenario.
C10_Witness == IsScenario /\ pc = "done"

\* C11: at every loop boundary (after feasibleTree and after each
\* exchangeEdges) every edge of g, the fake root's edges included, is at
\* least minlen long.
C11_PivotFeasible == pc = "loop" => Feasible(edges, rank)

\* C11 witness: after an exchange, with the fake root in g, the loop is at its
\* head with an edge longer than its minlen.
C11_Witness ==
  /\ pc = "loop"
  /\ pivoted
  /\ root = Root
  /\ \E i \in 1..Len(edges) : slack(rank, edges[i]) > 0

\* The g edge a tree edge stands for, whichever way the tree stores it
\* (an index of g.edges(), 0 if there is none).
graphEdgeOf(te) ==
  IF hasEdge(edges, te.v, te.w) THEN getEdge(edges, te.v, te.w)
  ELSE getEdge(edges, te.w, te.v)

\* C12: at every loop boundary t is a tight spanning tree of g: connected
\* and acyclic over exactly g's nodes, every tree edge joins the endpoints of
\* a g edge of zero slack, and the parent attribute of every node but the
\* tree root names a tree neighbour.
C12_TightSpanningTree ==
  pc = "loop" =>
    /\ Range(tNodes) = Range(nodes)
    /\ Len(tNodes) = Len(nodes)
    /\ Len(tEdges) = Len(tNodes) - 1
    /\ Reach(tEdges, {tNodes[1]}) = Range(tNodes)
    /\ \A i \in 1..Len(tEdges) :
         /\ graphEdgeOf(tEdges[i]) # 0
         /\ slack(rank, edges[graphEdgeOf(tEdges[i])]) = 0
    /\ \A x \in Range(tNodes) :
         IF x = tNodes[1] THEN tLabel[x].parent = NoNode
         ELSE /\ tLabel[x].parent \in Range(tNodes)
              /\ isTreeEdge(tEdges, x, tLabel[x].parent)

\* C12 witness: after an exchange the tree holds the edge that entered,
\* stored against the direction of its g edge, and g has an edge outside the
\* tree with positive slack.
C12_Witness ==
  /\ pc = "loop"
  /\ pivoted
  /\ \E i \in 1..Len(tEdges) : ~hasEdge(edges, tEdges[i].v, tEdges[i].w)
  /\ \E i \in 1..Len(edges) : slack(rank, edges[i]) > 0

\* The nodes on the side of x when tree edge i is taken out of t.
SideOf(i, x) == Reach(RemoveAt(tEdges, i), {x})

\* The cut value of tree edge i by the partition: the weight of the g edges
\* from the side of its g edge's tail to the side of its head, less the
\* weight of the g edges the other way.
PartitionCutValue(i) ==
  LET tailSide == SideOf(i, edges[graphEdgeOf(tEdges[i])].v)
  IN SeqSum([k \in 1..Len(edges) |->
       IF edges[k].v \in tailSide /\ edges[k].w \notin tailSide
       THEN edges[k].weight
       ELSE IF edges[k].v \notin tailSide /\ edges[k].w \in tailSide
       THEN -edges[k].weight
       ELSE 0])

\* C13: after initCutValues, before the loop and in every exchangeEdges, the
\* cutvalue stored on every tree edge is the net weight over the partition
\* its removal makes.
C13_CutValues ==
  pc = "loop" =>
    \A i \in 1..Len(tEdges) : tEdges[i].cutvalue = PartitionCutValue(i)

\* C13 witness: after an exchange a tree edge has a negative cut value and
\* a tree edge has a cut value other than the weight of its own g edge.
C13_Witness ==
  /\ pc = "loop"
  /\ pivoted
  /\ \E i \in 1..Len(tEdges) : tEdges[i].cutvalue < 0
  /\ \E i \in 1..Len(tEdges) :
       tEdges[i].cutvalue # edges[graphEdgeOf(tEdges[i])].weight

\* The loop is at its head and leaveEdge returns a tree edge.
AtPivot == pc = "loop" /\ leaveEdge(tEdges) # 0

\* The tree edge leaveEdge returns.
LeaveEdge == tEdges[leaveEdge(tEdges)]

\* C14: on a DAG with non-negative weights, connected by the fake root if
\* need be, whenever leaveEdge returns a tree edge enterEdge has a candidate
\* and returns an edge of g.
C14_CandidatesExist ==
  AtPivot =>
    /\ candidates(tLabel, edges, LeaveEdge) # << >>
    /\ enterEdge(tLabel, edges, rank, LeaveEdge) \in Range(edges)

\* C14 witness: after an exchange leaveEdge returns an edge for which
\* enterEdge has more than one candidate.
C14_Witness ==
  /\ AtPivot
  /\ pivoted
  /\ Len(candidates(tLabel, edges, LeaveEdge)) > 1

\* The step is one exchangeEdges of the loop.
Exchange == AtPivot /\ pc' = "loop"

\* C15 as stated: after every exchangeEdges of the loop the sum over g's
\* edges of weight * (rank(w) - rank(v)) is smaller than before.
C15_Stated == [][Exchange => Cost(edges, rank') < Cost(edges, rank)]_vars

\* C15 as amended: every exchangeEdges of the loop changes the sum by
\* cutvalue(e) * slack(f): the sum gets smaller when the entering edge has
\* positive slack and stays as it was when the entering edge has none.
C15_Amended ==
  [][Exchange =>
       LET f == enterEdge(tLabel, edges, rank, LeaveEdge)
       IN /\ Cost(edges, rank') = Cost(edges, rank) + LeaveEdge.cutvalue * slack(rank, f)
          /\ slack(rank, f) > 0 => Cost(edges, rank') < Cost(edges, rank)
          /\ slack(rank, f) = 0 => Cost(edges, rank') = Cost(edges, rank)]_vars

\* C15 witness: the loop has made an exchange that lowered the sum and, later,
\* one that left it as it was.
C15_Witness ==
  /\ pc = "loop"
  /\ \E s \in seen : Cost(edges, s[2]) > Cost(edges, rank)
  /\ \E s \in seen : s[2] = rank

\* C16: after every exchangeEdges of the loop the sum over g's edges of
\* weight * (rank(w) - rank(v)) is no larger than before.
C16_NeverWorse == [][Exchange => Cost(edges, rank') <= Cost(edges, rank)]_vars

\* C16 witness: the loop has made two exchanges or more and the sum is below
\* the one it started from.
C16_Witness ==
  /\ pc = "loop"
  /\ Cardinality(seen) >= 2
  /\ \E s \in seen : Cost(edges, s[2]) > Cost(edges, rank)

\* The indices of g.edges() that hold a candidate of enterEdge(t, g, e) for
\* the edge e that leaveEdge returns.
CandidateIndices ==
  {k \in 1..Len(edges) : edges[k] \in Range(candidates(tLabel, edges, LeaveEdge))}

\* C17: enterEdge returns a candidate no candidate has less slack than, and
\* of the candidates of that slack the first in g.edges() order.
C17_MinSlack ==
  AtPivot =>
    \E k \in CandidateIndices :
      /\ enterEdge(tLabel, edges, rank, LeaveEdge) = edges[k]
      /\ \A j \in CandidateIndices :
           /\ slack(rank, edges[k]) <= slack(rank, edges[j])
           /\ j < k => slack(rank, edges[k]) < slack(rank, edges[j])

\* C17 witness: enterEdge has two candidates of the least slack and, earlier
\* in g.edges(), a candidate of more slack.
C17_Witness ==
  /\ AtPivot
  /\ \E i \in CandidateIndices : \E j \in CandidateIndices : \E k \in CandidateIndices :
       /\ i < j
       /\ j < k
       /\ slack(rank, edges[i]) > slack(rank, edges[j])
       /\ slack(rank, edges[j]) = slack(rank, edges[k])
       /\ enterEdge(tLabel, edges, rank, LeaveEdge) = edges[j]

\* The endpoint of the leave edge with the smaller lim, and its subtree.
LowEnd ==
  IF tLabel[LeaveEdge.v].lim < tLabel[LeaveEdge.w].lim THEN LeaveEdge.v
  ELSE LeaveEdge.w

\* The nodes on the side of the tail of the leave edge's g edge when the
\* leave edge is taken out of t.
TailSide == SideOf(leaveEdge(tEdges), edges[graphEdgeOf(LeaveEdge)].v)

\* C18 as stated: the candidates of enterEdge are exactly the g edges with
\* exactly one endpoint in the subtree of the endpoint of e with the
\* smaller lim, whichever way they cross.
C18_Stated ==
  AtPivot =>
    Range(candidates(tLabel, edges, LeaveEdge)) =
      {c \in Range(edges) : (c.v \in SubtreeOf(LowEnd)) # (c.w \in SubtreeOf(LowEnd))}

\* C18 as amended: the candidates of enterEdge are, in g.edges() order,
\* exactly the g edges that cross the cut against the leave edge: from the
\* side of the head of e's g edge to the side of its tail.
C18_Amended ==
  AtPivot =>
    LET Against(c) == c.v \notin TailSide /\ c.w \in TailSide
    IN candidates(tLabel, edges, LeaveEdge) = SelectSeq(edges, Against)

\* C18 witness: after an exchange two edges or more cross the cut against
\* the leave edge and an edge other than the leave edge crosses it with it.
C18_Witness ==
  /\ AtPivot
  /\ pivoted
  /\ Len(candidates(tLabel, edges, LeaveEdge)) > 1
  /\ \E i \in 1..Len(edges) :
       /\ i # graphEdgeOf(LeaveEdge)
       /\ edges[i].v \in TailSide
       /\ edges[i].w \notin TailSide

\* The four steps of the cut value of the tree edge child - parent, on the
\* stored values: the weight of the g edge between child and parent; for
\* every other g edge at child its weight, added when it points to the head
\* side and subtracted otherwise; and, when that edge is a tree edge too, its
\* stored cut value, taken fold times the same sign.
CutValueBySteps(child, fold) ==
  LET parent == tLabel[child].parent
      childIsTail == hasEdge(edges, child, parent)
      own == edges[graphEdgeOf([v |-> child, w |-> parent])]
      Term(c) ==
        LET other == IF c.v = child THEN c.w ELSE c.v
            sign == IF (c.v = child) = childIsTail THEN 1 ELSE -1
        IN IF (c.v # child /\ c.w # child) \/ other = parent THEN 0
           ELSE sign * c.weight +
                (IF isTreeEdge(tEdges, child, other)
                 THEN fold * sign * tEdges[getTreeEdge(tEdges, child, other)].cutvalue
                 ELSE 0)
  IN own.weight + SeqSum([k \in 1..Len(edges) |-> Term(edges[k])])

\* C19 as stated: calcCutValue(t, g, child) is the value of the four steps
\* with the other tree edge's cut value added when the g edge points to the
\* head side and subtracted otherwise.
C19_Stated ==
  pc = "loop" =>
    \A child \in Range(tNodes) \ {tNodes[1]} :
      calcCutValue(tEdges, edges, tLabel, child) = CutValueBySteps(child, 1)

\* C19 as amended: calcCutValue(t, g, child) is the value of the four steps
\* with the other tree edge's cut value subtracted when the g edge points to
\* the head side and added otherwise.
C19_Amended ==
  pc = "loop" =>
    \A child \in Range(tNodes) \ {tNodes[1]} :
      calcCutValue(tEdges, edges, tLabel, child) = CutValueBySteps(child, -1)

\* C19 witness: after an exchange a node has a tree parent and two tree
\* children whose edges have a cut value other than 0, one edge pointing to
\* the head side and one away from it.
C19_Witness ==
  /\ pc = "loop"
  /\ pivoted
  /\ \E child \in Range(tNodes) \ {tNodes[1]} :
     \E a \in Range(tNodes) : \E b \in Range(tNodes) :
       /\ tLabel[a].parent = child
       /\ tLabel[b].parent = child
       /\ tEdges[getTreeEdge(tEdges, child, a)].cutvalue # 0
       /\ tEdges[getTreeEdge(tEdges, child, b)].cutvalue # 0
       /\ hasEdge(edges, child, a) = hasEdge(edges, child, tLabel[child].parent)
       /\ hasEdge(edges, child, b) # hasEdge(edges, child, tLabel[child].parent)

\* C20: leaveEdge returns the first edge of t.edges() whose stored cutvalue
\* is negative, and no edge only when every stored cutvalue is >= 0; so
\* when the loop exits every edge of the final tree has a stored cutvalue
\* >= 0, and computing the cut values of that tree again gives the stored
\* ones.
C20_LeaveEdge ==
  /\ pc = "loop" =>
       /\ leaveEdge(tEdges) \in 0..Len(tEdges)
       /\ \A i \in 1..Len(tEdges) :
            /\ i < leaveEdge(tEdges) => tEdges[i].cutvalue >= 0
            /\ i = leaveEdge(tEdges) => tEdges[i].cutvalue < 0
            /\ leaveEdge(tEdges) = 0 => tEdges[i].cutvalue >= 0
       /\ leaveEdge(tEdges) = 0 =>
            tEdges = initCutValues(tNodes, tEdges, edges, tLabel)
  /\ pc = "done" => \A i \in 1..Len(tEdges) : tEdges[i].cutvalue >= 0

\* C20 witness: the loop has exited after two exchanges or more, leaving a
\* tree with a cut value of 0 and a cut value above 0.
C20_Witness ==
  /\ pc = "done"
  /\ Cardinality(seen) >= 2
  /\ \E i \in 1..Len(tEdges) : tEdges[i].cutvalue = 0
  /\ \E i \in 1..Len(tEdges) : tEdges[i].cutvalue > 0

====
